---- MODULE Spec2Model ----
(***************************************************************************)
(* Call-routing engine of hotline: the Twisted server variant             *)
(* (src/hotline/advanced/server.py).  The state is the HotlineService      *)
(* (operators, ongoing, waiting), the delayed calls the reactor holds      *)
(* (reactor.callLater) and the reply of the last handled event.            *)
(***************************************************************************)
EXTENDS Integers, Sequences, FiniteSets, TLC

\* ---- bounds of the model ------------------------------------------------
MaxWaiting == 2      \* longest waiting queue explored
MaxStale == 1        \* most pending delayed calls whose ringing episode is over
MaxCallId == 3       \* call ids range over 1..MaxCallId

\* string.ascii_uppercase
ascii_uppercase ==
    << "A", "B", "C", "D", "E", "F", "G", "H", "I", "J", "K", "L", "M",
       "N", "O", "P", "Q", "R", "S", "T", "U", "V", "W", "X", "Y", "Z" >>

\* configuration parameters
n_operators == 2
timeout == TRUE

VARIABLES
    operators,  \* HotlineService.operators: the ids, in dict insertion order
    status,     \* Operator.status of every operator
    ongoing,    \* HotlineService.ongoing: dict Operator -> Call, as the
                \* sequence of its items in insertion order
    waiting,    \* HotlineService.waiting: deque of Call
    timers,     \* delayed calls pending in the reactor, in firing order
    last        \* the event handled last and what it answered

vars == << operators, status, ongoing, waiting, timers, last >>

\* ---- values ---------------------------------------------------------------
CallIds == 1 .. MaxCallId
\* ids a client may send with answer / reject: every registered operator
\* and one id that is not registered
OperatorIds == { ascii_uppercase[i] : i \in 1 .. (n_operators + 1) }

Min(S) == CHOOSE x \in S : \A y \in S : x <= y
Max(S) == CHOOSE x \in S : \A y \in S : x >= y

\* ---- Python dict, as the sequence of its items --------------------------
keys(d) == { d[i].operator : i \in DOMAIN d }

dict_get(d, o) == d[CHOOSE i \in DOMAIN d : d[i].operator = o].call

\* d[o] = c : a new key goes last, an existing key keeps its place
dict_set(d, o, c) ==
    IF o \in keys(d)
    THEN [i \in DOMAIN d |->
            IF d[i].operator = o THEN [operator |-> o, call |-> c] ELSE d[i]]
    ELSE Append(d, [operator |-> o, call |-> c])

\* d.pop(o)
dict_pop(d, o) == SelectSeq(d, LAMBDA e : e.operator # o)

\* deque.remove(x): drops the first element equal to x
deque_remove(q, x) ==
    LET i == Min({ j \in DOMAIN q : q[j] = x })
    IN  [j \in 1 .. (Len(q) - 1) |-> IF j < i THEN q[j] ELSE q[j + 1]]

\* ---- objects ----------------------------------------------------------------
\* Call(id).  A call is its id: the code reads nothing else of it, and the only
\* place that compares call objects, deque.remove(call), is given the first
\* call of the queue that has the id.
Call(id) == [id |-> id]

\* one line of a reply: f'Call {call.id} <text> [operator {operator.id}]'
Line(text, call, operator) == [text |-> text, call |-> call.id, operator |-> operator]

\* reactor.callLater(10, self.timout_call, operator).  `current` is history:
\* it says whether the ringing episode the timer was armed for is still on.
DelayedCall(operator) == [operator |-> operator, current |-> TRUE]

\* history: the ringing episode of operator o ends
EndEpisode(ts, o) ==
    [i \in DOMAIN ts |->
        IF ts[i].operator = o THEN [ts[i] EXCEPT !.current = FALSE] ELSE ts[i]]

\* the service as the handlers see it, with the reply under construction
Service ==
    [status |-> status, ongoing |-> ongoing, waiting |-> waiting,
     timers |-> timers, msg |-> << >>, exc |-> ""]

\* operators.values() whose status is 'available', as registry positions
Available(s) == { i \in DOMAIN operators : s.status[operators[i]] = "available" }

\* ---- HotlineProtocol ------------------------------------------------------
\* forward_call scanning the registry from its end
forward_call_from_end(s, call) ==
    IF Available(s) # {}
    THEN LET operator == operators[Max(Available(s))]
         IN  [s EXCEPT !.status[operator] = "ringing",
                       !.ongoing = dict_set(@, operator, call),
                       !.timers = Append(@, DelayedCall(operator)),
                       !.msg = Append(@, Line("ringing", call, operator))]
    ELSE [s EXCEPT !.waiting = Append(@, call),
                   !.msg = Append(@, Line("waiting", call, ""))]

forward_call(s, call) ==
    IF Available(s) # {}
    THEN LET operator == operators[Min(Available(s))]
         IN  [s EXCEPT !.status[operator] = "ringing",
                       !.ongoing = dict_set(@, operator, call),
                       !.timers = Append(@, DelayedCall(operator)),
                       !.msg = Append(@, Line("ringing", call, operator))]
    ELSE [s EXCEPT !.waiting = Append(@, call),
                   !.msg = Append(@, Line("waiting", call, ""))]

\* step_waiting_queue without its waiting.popleft()
step_waiting_queue_no_popleft(s) ==
    IF Len(s.waiting) > 0 /\ Available(s) # {}
    THEN LET call == s.waiting[1]
             operator == operators[Min(Available(s))]
         IN  [s EXCEPT !.status[operator] = "ringing",
                       !.ongoing = dict_set(@, operator, call),
                       !.timers = Append(@, DelayedCall(operator)),
                       !.msg = Append(@, Line("ringing", call, operator))]
    ELSE s

\* step_waiting_queue taking the call that entered the queue last
step_waiting_queue_from_tail(s) ==
    IF Len(s.waiting) > 0 /\ Available(s) # {}
    THEN LET call == s.waiting[Len(s.waiting)]
             operator == operators[Min(Available(s))]
         IN  [s EXCEPT !.status[operator] = "ringing",
                       !.ongoing = dict_set(@, operator, call),
                       !.waiting = SubSeq(@, 1, Len(@) - 1),
                       !.timers = Append(@, DelayedCall(operator)),
                       !.msg = Append(@, Line("ringing", call, operator))]
    ELSE s

step_waiting_queue(s) ==
    IF Len(s.waiting) > 0 /\ Available(s) # {}
    THEN LET call == s.waiting[1]
             operator == operators[Min(Available(s))]
         IN  [s EXCEPT !.status[operator] = "ringing",
                       !.ongoing = dict_set(@, operator, call),
                       !.waiting = Tail(@),
                       !.timers = Append(@, DelayedCall(operator)),
                       !.msg = Append(@, Line("ringing", call, operator))]
    ELSE s

remove_from_waiting(s, id) ==
    LET hits == { i \in DOMAIN s.waiting : s.waiting[i].id = id }
    IN  IF hits # {}
        THEN LET call == s.waiting[Min(hits)]
             IN  [s EXCEPT !.waiting = deque_remove(@, call),
                           !.msg = Append(@, Line("missed", call, ""))]
        ELSE s

\* hangup_call without its operator.status = 'available'
hangup_call_keeps_status(s, id) ==
    LET hits == { i \in DOMAIN s.ongoing : s.ongoing[i].call.id = id }
    IN  IF hits # {}
        THEN LET operator == s.ongoing[Min(hits)].operator
                 call == s.ongoing[Min(hits)].call
             IN  [s EXCEPT !.ongoing = dict_pop(@, operator),
                           !.timers = EndEpisode(@, operator),
                           !.msg = Append(@,
                               IF s.status[operator] = "ringing"
                               THEN Line("missed", call, "")
                               ELSE Line("finished", call, operator))]
        ELSE IF s.ongoing = << >>
        THEN [s EXCEPT !.exc = "UnboundLocalError"]
        ELSE [s EXCEPT !.ongoing = dict_pop(@, s.ongoing[Len(s.ongoing)].operator),
                       !.exc = "UnboundLocalError"]

hangup_call(s, id) ==
    LET hits == { i \in DOMAIN s.ongoing : s.ongoing[i].call.id = id }
    IN  IF hits # {}
        THEN LET operator == s.ongoing[Min(hits)].operator
                 call == s.ongoing[Min(hits)].call
             IN  [s EXCEPT !.status[operator] = "available",
                           !.ongoing = dict_pop(@, operator),
                           !.timers = EndEpisode(@, operator),
                           !.msg = Append(@,
                               IF s.status[operator] = "ringing"
                               THEN Line("missed", call, "")
                               ELSE Line("finished", call, operator))]
        ELSE IF s.ongoing = << >>
        \* the loop never ran: `operator` is unbound at ongoing.pop(operator)
        THEN [s EXCEPT !.exc = "UnboundLocalError"]
        \* the loop ran out: `operator` is the last key, `msg` is unbound
        ELSE [s EXCEPT !.ongoing = dict_pop(@, s.ongoing[Len(s.ongoing)].operator),
                       !.exc = "UnboundLocalError"]

process_call(s, id) ==
    LET call == Call(id)
    IN  forward_call([s EXCEPT !.msg = << Line("received", call, "") >>], call)

\* process_answer without its operator.status = 'busy'
process_answer_keeps_ringing(s, id) ==
    IF id \notin DOMAIN s.status \/ id \notin keys(s.ongoing)
    THEN [s EXCEPT !.exc = "KeyError"]
    ELSE [s EXCEPT !.timers = EndEpisode(@, id),
                   !.msg = << Line("answered", dict_get(s.ongoing, id), id) >>]

process_answer(s, id) ==
    IF id \notin DOMAIN s.status \/ id \notin keys(s.ongoing)
    THEN [s EXCEPT !.exc = "KeyError"]
    ELSE [s EXCEPT !.status[id] = "busy",
                   !.timers = EndEpisode(@, id),
                   !.msg = << Line("answered", dict_get(s.ongoing, id), id) >>]

\* process_reject forwarding the call before the operator is made available
process_reject_forwards_first(s, id) ==
    IF id \notin DOMAIN s.status \/ id \notin keys(s.ongoing)
    THEN [s EXCEPT !.exc = "KeyError"]
    ELSE LET call == dict_get(s.ongoing, id)
             f == forward_call([s EXCEPT !.ongoing = dict_pop(@, id),
                                         !.timers = EndEpisode(@, id),
                                         !.msg = << Line("rejected", call, id) >>],
                               call)
         IN  [f EXCEPT !.status[id] = "available"]

\* process_reject without its ongoing.pop(operator)
process_reject_no_pop(s, id) ==
    IF id \notin DOMAIN s.status \/ id \notin keys(s.ongoing)
    THEN [s EXCEPT !.exc = "KeyError"]
    ELSE LET call == dict_get(s.ongoing, id)
         IN  forward_call([s EXCEPT !.status[id] = "available",
                                    !.timers = EndEpisode(@, id),
                                    !.msg = << Line("rejected", call, id) >>],
                          call)

process_reject(s, id) ==
    IF id \notin DOMAIN s.status \/ id \notin keys(s.ongoing)
    THEN [s EXCEPT !.exc = "KeyError"]
    ELSE LET call == dict_get(s.ongoing, id)
         IN  forward_call([s EXCEPT !.ongoing = dict_pop(@, id),
                                    !.status[id] = "available",
                                    !.timers = EndEpisode(@, id),
                                    !.msg = << Line("rejected", call, id) >>],
                          call)

\* CallCenter.do_reject of the command-line variant (basic/callcenter.py):
\* the same statements as process_reject, then step_waiting_queue()
do_reject(s, id) ==
    LET r == process_reject(s, id)
    IN  IF r.exc # "" THEN r ELSE step_waiting_queue(r)

\* process_hangup without its step_waiting_queue()
process_hangup_no_step(s, id) ==
    LET w == remove_from_waiting(s, id)
    IN  IF w.msg = << >> THEN hangup_call(s, id) ELSE w

\* process_hangup searching ongoing before the waiting queue
process_hangup_ongoing_first(s, id) ==
    LET a == hangup_call(s, id)
        w == remove_from_waiting(s, id)
        h == IF a.exc = "" \/ w.msg = << >> THEN a ELSE w
    IN  IF h.exc # "" THEN h ELSE step_waiting_queue(h)

process_hangup(s, id) ==
    LET w == remove_from_waiting(s, id)
        h == IF w.msg = << >> THEN hangup_call(s, id) ELSE w
    IN  IF h.exc # "" THEN h ELSE step_waiting_queue(h)

\* timout_call without its test of operator.status
timout_call_any_status(s, operator) ==
    IF timeout /\ operator \in keys(s.ongoing)
    THEN LET lost_call == dict_get(s.ongoing, operator)
         IN  step_waiting_queue(
                 forward_call([s EXCEPT !.ongoing = dict_pop(@, operator),
                                        !.status[operator] = "available",
                                        !.timers = EndEpisode(@, operator),
                                        !.msg = << Line("ignored", lost_call, operator) >>],
                              lost_call))
    ELSE s

timout_call(s, operator) ==
    IF timeout /\ operator \in keys(s.ongoing) /\ s.status[operator] = "ringing"
    THEN LET lost_call == dict_get(s.ongoing, operator)
         IN  step_waiting_queue(
                 forward_call([s EXCEPT !.ongoing = dict_pop(@, operator),
                                        !.status[operator] = "available",
                                        !.timers = EndEpisode(@, operator),
                                        !.msg = << Line("ignored", lost_call, operator) >>],
                              lost_call))
    ELSE s

\* ---- HotlineService ---------------------------------------------------------
load_operators(n) == [i \in 1 .. n |-> ascii_uppercase[i]]

Init ==
    /\ operators = load_operators(n_operators)
    /\ status = [o \in { operators[i] : i \in DOMAIN operators } |-> "available"]
    /\ ongoing = << >>
    /\ waiting = << >>
    /\ timers = << >>
    /\ last = [command |-> "", call |-> 0, operator |-> "", stale |-> FALSE,
               exc |-> "", msg |-> << >>]

\* the handler's effects become the new state; its reply (nothing when it
\* raised) is what the transport writes.  The first two conjuncts are the
\* bounds: the code bounds neither the queue nor the delayed calls it never
\* cancels (each ringing operator has one more, that of its episode).  last names the event by its command
\* and its argument: a call id (else 0) or an operator id (else "").
Handled(command, call_id, operator_id, stale, r) ==
    /\ Len(r.waiting) <= MaxWaiting
    /\ Cardinality({ i \in DOMAIN r.timers : ~r.timers[i].current }) <= MaxStale
    /\ status' = r.status
    /\ ongoing' = r.ongoing
    /\ waiting' = r.waiting
    /\ timers' = r.timers
    /\ last' = [command |-> command, call |-> call_id, operator |-> operator_id,
                stale |-> stale, exc |-> r.exc,
                msg |-> IF r.exc = "" THEN r.msg ELSE << >>]
    /\ UNCHANGED operators

\* dataReceived / process_command, one action per command
call(id) ==
    \E r \in { process_call(Service, id) } : Handled("call", id, "", FALSE, r)

answer(id) ==
    \E r \in { process_answer(Service, id) } : Handled("answer", 0, id, FALSE, r)

reject(id) ==
    \E r \in { process_reject(Service, id) } : Handled("reject", 0, id, FALSE, r)

hangup(id) ==
    \E r \in { process_hangup(Service, id) } : Handled("hangup", id, "", FALSE, r)

\* the reactor runs the delayed call that is due first
TimeoutRing ==
    /\ timers # << >>
    /\ \E r \in { timout_call([Service EXCEPT !.timers = Tail(@)], Head(timers).operator) } :
           Handled("timeout", 0, Head(timers).operator, ~Head(timers).current, r)

Next ==
    \/ \E id \in CallIds : call(id)
    \/ \E id \in OperatorIds : answer(id)
    \/ \E id \in OperatorIds : reject(id)
    \/ \E id \in CallIds : hangup(id)
    \/ TimeoutRing

Spec == Init /\ [][Next]_vars

\* the reactor runs every delayed call once its 10 seconds are over: a
\* pending delayed call does not wait forever
FairSpec == Spec /\ WF_vars(TimeoutRing)

\* ---- properties -------------------------------------------------------------
Registered == { operators[i] : i \in DOMAIN operators }
AssignedIds == { ongoing[i].call.id : i \in DOMAIN ongoing }
WaitingIds == { waiting[i].id : i \in DOMAIN waiting }
\* the step just taken handled command c
Did(c) == last'.command = c
\* no two calls in flight carry the same id
InFlightDistinct ==
    Cardinality(AssignedIds \cup WaitingIds) = Len(ongoing) + Len(waiting)
\* the first k operators of the registry ring, entered in ongoing in that
\* order; the others are available; nothing waits
FirstRinging(k) ==
    /\ Len(ongoing) = k
    /\ \A i \in 1 .. k :
          ongoing[i].operator = operators[i] /\ status[operators[i]] = "ringing"
    /\ \A i \in (k + 1) .. Len(operators) : status[operators[i]] = "available"
    /\ waiting = << >>
\* seq without its i-th element
Without(seq, i) ==
    [j \in 1 .. (Len(seq) - 1) |-> IF j < i THEN seq[j] ELSE seq[j + 1]]

\* C1: in every reachable state, an operator's status is ringing or busy
\* exactly when ongoing has an entry for it, and available exactly when it
\* has none.
C1_StatusMatchesAssignment ==
    \A o \in Registered :
        /\ (status[o] \in { "ringing", "busy" }) <=> (o \in keys(ongoing))
        /\ (status[o] = "available") <=> (o \notin keys(ongoing))

\* C2: a hangup whose id matches no waiting call and no assigned call ends in
\* an error and leaves every status, ongoing and waiting as they were.
C2_HangupOfNoCallChangesNothing ==
    [][(Did("hangup") /\ last'.call \notin WaitingIds \cup AssignedIds)
       => (last'.exc # "" /\ UNCHANGED << status, ongoing, waiting >>)]_vars

\* C3: a timeout armed for a ringing episode that has already ended changes
\* no status, no assignment and not the queue, and writes nothing.
C3_StaleTimeoutIsNoOp ==
    [][(Did("timeout") /\ last'.stale)
       => (UNCHANGED << status, ongoing, waiting >> /\ last'.msg = << >>)]_vars

C5_CallsRingOperatorsInRegistryOrder ==
    [][Did("call")
       => \A k \in 0 .. n_operators :
             FirstRinging(k)
             => IF k < Len(operators)
                THEN /\ status' = [status EXCEPT ![operators[k + 1]] = "ringing"]
                     /\ ongoing' = Append(ongoing,
                           [operator |-> operators[k + 1], call |-> Call(last'.call)])
                     /\ waiting' = << >>
                ELSE /\ waiting' = << Call(last'.call) >>
                     /\ UNCHANGED << status, ongoing >>]_vars

\* n_operators calls ring every operator in registry order, the next one waits
C5_Witness ==
    /\ last.command = "call"
    /\ \A i \in DOMAIN operators :
          status[operators[i]] = "ringing" /\ ongoing[i].operator = operators[i]
    /\ waiting = << Call(last.call) >>
    /\ timers = [i \in DOMAIN operators |-> DelayedCall(operators[i])]

\* C6: a reject for an operator that is unknown, available or busy fails and
\* leaves every status, ongoing and waiting as they were.
C6_RejectNeedsRinging ==
    [][(/\ Did("reject")
        /\ ~(last'.operator \in Registered /\ status[last'.operator] = "ringing"))
       => (last'.exc # "" /\ UNCHANGED << status, ongoing, waiting >>)]_vars

\* C7: an answer that succeeds on a ringing operator makes it busy and
\* changes nothing else; an answer for an operator that is unknown, available
\* or busy fails and changes nothing.
C7_AnswerNeedsRinging ==
    [][Did("answer")
       => LET o == last'.operator
          IN  IF o \in Registered /\ status[o] = "ringing"
              THEN last'.exc = ""
                   => /\ status' = [status EXCEPT ![o] = "busy"]
                      /\ UNCHANGED << ongoing, waiting >>
              ELSE last'.exc # "" /\ UNCHANGED << status, ongoing, waiting >>]_vars

\* C8 (scenario B): operators A and B ring for calls 1 and 2 and call 3 waits;
\* reject A answers that call 1 was rejected by A and now waits in the queue,
\* and call 1 is at the tail of the queue, behind call 3.
C8_RejectedCallGoesToQueue ==
    [][(/\ operators = << "A", "B" >>
        /\ status = [o \in { "A", "B" } |-> "ringing"]
        /\ ongoing = << [operator |-> "A", call |-> Call(1)],
                        [operator |-> "B", call |-> Call(2)] >>
        /\ waiting = << Call(3) >>
        /\ Did("reject") /\ last'.operator = "A")
       => (/\ last'.msg = << Line("rejected", Call(1), "A"),
                              Line("waiting", Call(1), "") >>
           /\ waiting' = << Call(3), Call(1) >>)]_vars

\* C9 (scenario C): when the timer of an operator's current ringing episode
\* fires while the operator still rings for its call, the reply starts with
\* "Call c ignored by operator o", the call is afterwards assigned or
\* waiting, and the operator is available.
C9_TimeoutFreesOperator ==
    [][(/\ Did("timeout") /\ ~last'.stale
        /\ status[last'.operator] = "ringing" /\ last'.operator \in keys(ongoing))
       => LET o == last'.operator
          IN  /\ last'.msg # << >>
              /\ last'.msg[1] = Line("ignored", dict_get(ongoing, o), o)
              /\ dict_get(ongoing, o).id \in (AssignedIds \cup WaitingIds)'
              /\ status'[o] = "available"]_vars

\* C10: a hangup that finds its id in ongoing (and not in the waiting queue,
\* which is searched first) removes exactly that entry, answers "missed" if
\* the operator was ringing and "finished and operator o is available" if it
\* was busy, and steps the queue once: with an empty queue the operator ends
\* available; otherwise the front call leaves the queue and rings at the first
\* available operator of the registry, the rest of the queue keeping its order.
C10_HangupOfAssignedCall ==
    [][(Did("hangup") /\ last'.call \notin WaitingIds /\ last'.call \in AssignedIds)
       => LET id == last'.call
              i == Min({ j \in DOMAIN ongoing : ongoing[j].call.id = id })
              o == ongoing[i].operator
              freed == [status EXCEPT ![o] = "available"]
              first == operators[Min({ j \in DOMAIN operators :
                                        freed[operators[j]] = "available" })]
          IN  /\ last'.exc = ""
              /\ \/ status[o] = "ringing"
                    /\ last'.msg[1] = Line("missed", Call(id), "")
                 \/ status[o] = "busy"
                    /\ last'.msg[1] = Line("finished", Call(id), o)
              /\ IF waiting = << >>
                 THEN /\ status' = freed
                      /\ ongoing' = Without(ongoing, i)
                      /\ waiting' = << >>
                      /\ Len(last'.msg) = 1
                 ELSE /\ status' = [freed EXCEPT ![first] = "ringing"]
                      /\ ongoing' = Append(Without(ongoing, i),
                            [operator |-> first, call |-> Head(waiting)])
                      /\ waiting' = Tail(waiting)
                      /\ Len(last'.msg) = 2
                      /\ last'.msg[2] = Line("ringing", Head(waiting), first)]_vars

\* a finished call was hung up and the front of a longer queue rings
C10_Witness ==
    /\ last.command = "hangup" /\ Len(last.msg) = 2
    /\ last.msg[1].text = "finished" /\ last.msg[2].text = "ringing"
    /\ waiting # << >>

\* every operator is available, nothing is assigned, nothing waits
Idle ==
    /\ \A o \in Registered : status[o] = "available"
    /\ ongoing = << >>
    /\ waiting = << >>
\* operator o holds call c with status st; it is the only assignment, the
\* other operators are available and nothing waits
OnlyCall(o, c, st) ==
    /\ status = [p \in Registered |-> IF p = o THEN st ELSE "available"]
    /\ ongoing = << [operator |-> o, call |-> Call(c)] >>
    /\ waiting = << >>

\* C11 (round trip): from the idle state call 1 rings A; answer A then makes
\* A busy with call 1; hangup 1 then answers "Call 1 finished and operator A
\* is available" and leaves the idle state again: all operators available,
\* no assignment, empty queue.
C11_RoundTrip ==
    [][/\ (Idle /\ Did("call") /\ last'.call = 1) => OnlyCall("A", 1, "ringing")'
       /\ (OnlyCall("A", 1, "ringing") /\ Did("answer") /\ last'.operator = "A")
          => (/\ OnlyCall("A", 1, "busy")'
              /\ last'.msg = << Line("answered", Call(1), "A") >>)
       /\ (OnlyCall("A", 1, "busy") /\ Did("hangup") /\ last'.call = 1)
          => (/\ Idle'
              /\ last'.exc = ""
              /\ last'.msg = << Line("finished", Call(1), "A") >>)]_vars

\* call 1, answer A, hangup 1 from the start: the state is the initial one but
\* for the delayed call of the one ringing episode, which is still pending
C11_Witness ==
    /\ Idle
    /\ last.command = "hangup" /\ last.call = 1
    /\ last.msg = << Line("finished", Call(1), "A") >>
    /\ timers = << [operator |-> "A", current |-> FALSE] >>

\* C12: a hangup whose id is in the waiting queue removes the first queue
\* entry with that id and nothing else, answers "Call id missed" and that
\* only, keeps the other entries in their order and changes no status and no
\* entry of ongoing, also when a call with the same id is assigned.
C12_HangupOfWaitingCall ==
    [][(Did("hangup") /\ last'.call \in WaitingIds)
       => LET id == last'.call
              i == Min({ j \in DOMAIN waiting : waiting[j].id = id })
          IN  /\ last'.exc = ""
              /\ last'.msg = << Line("missed", Call(id), "") >>
              /\ waiting' = Without(waiting, i)
              /\ UNCHANGED << status, ongoing >>]_vars

\* a waiting call was hung up while a call of the same id stays assigned and
\* another call stays in the queue
C12_Witness ==
    /\ last.command = "hangup" /\ last.msg = << Line("missed", Call(last.call), "") >>
    /\ last.call \in AssignedIds
    /\ waiting # << >>

\* queue q is queue p, or p with one more call at its tail
SameOrAppended(q, p) ==
    \/ q = p
    \/ Len(q) = Len(p) + 1 /\ SubSeq(q, 1, Len(p)) = p

\* C13: the waiting queue is first in, first out.  In every step the queue
\* keeps its calls in their order; a call enters it at the tail only, and a
\* call leaves it only as the front, which then rings for an operator, or by
\* a hangup of its id, which takes the first entry of that id.
C13_WaitingIsFifo ==
    [][\/ SameOrAppended(waiting', waiting)
       \/ /\ waiting # << >>
          /\ SameOrAppended(waiting', Tail(waiting))
          /\ \E i \in DOMAIN ongoing' :
                /\ ongoing'[i].call = Head(waiting)
                /\ status'[ongoing'[i].operator] = "ringing"
                /\ last'.msg[Len(last'.msg)] =
                       Line("ringing", Head(waiting), ongoing'[i].operator)
       \/ /\ Did("hangup") /\ last'.call \in WaitingIds
          /\ waiting' = Without(waiting,
                 Min({ j \in DOMAIN waiting : waiting[j].id = last'.call }))]_vars

\* a missed ringing call freed an operator, the front of the queue rings for
\* it and a call of another id, which entered later, still waits
C13_Witness ==
    /\ last.command = "hangup" /\ Len(last.msg) = 2
    /\ last.msg[1].text = "missed" /\ last.msg[2].text = "ringing"
    /\ waiting # << >> /\ waiting[1].id # last.msg[2].call

\* C14: a delayed call that fires for an operator whose status is not
\* ringing (busy, or available) changes no status, no entry of ongoing and
\* not the waiting queue, and writes nothing.
C14_TimeoutOfNonRingingIsNoOp ==
    [][(Did("timeout") /\ status[last'.operator] # "ringing")
       => (/\ UNCHANGED << status, ongoing, waiting >>
           /\ last'.msg = << >>
           /\ last'.exc = "")]_vars

\* the delayed call of an answered operator fired: the operator is still
\* busy with its call
C14_Witness ==
    /\ last.command = "timeout" /\ last.msg = << >>
    /\ status[last.operator] = "busy"
    /\ last.operator \in keys(ongoing)

\* C15 as claimed: in every reachable state no two operators hold a call of
\* the same call id, whatever ids the call commands carried.
C15_OneAssignmentPerCallId == Cardinality(AssignedIds) = Len(ongoing)

\* C15 as amended: while the calls in flight carry pairwise distinct ids,
\* after every event no two entries of ongoing hold the same call id, except
\* after a call command whose id is still in flight.
C15_DistinctCallsHaveOneAssignment ==
    [][(InFlightDistinct
        /\ ~(Did("call") /\ last'.call \in AssignedIds \cup WaitingIds))
       => \A i, j \in DOMAIN ongoing' :
             ongoing'[i].call.id = ongoing'[j].call.id => i = j]_vars

\* a rejected call went from its operator to another one and is the only
\* assignment
C15_Witness ==
    /\ last.command = "reject" /\ Len(last.msg) = 2
    /\ last.msg[2].text = "ringing" /\ last.msg[2].operator # last.operator
    /\ ongoing = << [operator |-> last.msg[2].operator,
                     call |-> Call(last.msg[2].call)] >>

\* C16: an operator's status changes along the state machine only.  Seen
\* from one event to the next: an operator that was not busy is busy
\* afterwards only if it was ringing and the event is an answer for it, and
\* an operator that was busy is no longer busy afterwards only if the event
\* is a hangup of the call it holds (it may ring again at once for a waiting
\* call).
C16_StatusFollowsStateMachine ==
    [][\A o \in Registered :
          /\ (status[o] # "busy" /\ status'[o] = "busy")
             => (status[o] = "ringing" /\ Did("answer") /\ last'.operator = o)
          /\ (status[o] = "busy" /\ status'[o] # "busy")
             => (/\ Did("hangup")
                 /\ o \in keys(ongoing)
                 /\ dict_get(ongoing, o).id = last'.call)]_vars

\* C17 (work conservation): in every reachable state, if a call waits in
\* the queue then no operator is available.
C17_NoCallWaitsForFreeOperator ==
    waiting # << >> => \A o \in Registered : status[o] # "available"

\* the timer of a ringing operator fired while a call waited: the operator
\* was free for a moment and rings again
C17_Witness ==
    /\ last.command = "timeout" /\ Len(last.msg) = 2
    /\ last.msg[1].text = "ignored" /\ last.msg[2].text = "ringing"
    /\ waiting # << >>

\* the event handled last began a ringing episode of operator o
EpisodeBegan(o) ==
    /\ last.msg # << >>
    /\ last.msg[Len(last.msg)].text = "ringing"
    /\ last.msg[Len(last.msg)].operator = o

\* C18: when the reactor runs every pending delayed call, no operator stays
\* in one ringing episode forever: an operator that rings is later not
\* ringing (answered, hung up, or freed by a reject or a timeout) or has
\* begun a new episode (rung again by the reject, timeout or hangup that
\* ended the old one).
C18_RingingEpisodeEnds ==
    \A i \in 1 .. n_operators :
        (status[ascii_uppercase[i]] = "ringing")
        ~> (status[ascii_uppercase[i]] # "ringing" \/ EpisodeBegan(ascii_uppercase[i]))

\* the ids of the calls in the system
InFlightIds == AssignedIds \cup WaitingIds

\* C19: while the calls in flight carry pairwise distinct ids (no call
\* command reuses an id in flight), a received call is in the system, every
\* call in the system is either assigned or waiting and not both, and the
\* only call an event takes out of the system is the call whose id a hangup
\* carries.
C19_NoCallIsLost ==
    [][(InFlightDistinct /\ ~(Did("call") /\ last'.call \in InFlightIds))
       => (/\ InFlightDistinct'
           /\ Did("call") => last'.call \in InFlightIds'
           /\ (InFlightIds \ InFlightIds')
                  \subseteq (IF Did("hangup") THEN { last'.call } ELSE {}))]_vars

\* the number of available operators
NAvailable == Cardinality({ o \in Registered : status[o] = "available" })

\* C20: a reject of a ringing operator X, and a delayed call that finds X
\* ringing with an assignment, free X and forward its call again: the call
\* ends ringing at the first available operator of the registry, X counted
\* as available; it is not appended to the waiting queue, which stays as it
\* was, and as many operators are available afterwards as before.  The
\* step_waiting_queue that do_reject adds after the forward changes nothing.
C20_DisplacedCallRingsAtOnce ==
    [][(/\ Did("reject") \/ Did("timeout")
        /\ last'.operator \in keys(ongoing)
        /\ status[last'.operator] = "ringing")
       => LET x == last'.operator
              c == dict_get(ongoing, x)
              freed == [status EXCEPT ![x] = "available"]
              first == operators[Min({ j \in DOMAIN operators :
                                        freed[operators[j]] = "available" })]
          IN  /\ status' = [freed EXCEPT ![first] = "ringing"]
              /\ ongoing' = Append(dict_pop(ongoing, x),
                                   [operator |-> first, call |-> c])
              /\ waiting' = waiting
              /\ NAvailable' = NAvailable
              /\ Len(last'.msg) = 2
              /\ last'.msg[2] = Line("ringing", c, first)
              /\ Did("reject")
                 => LET r == do_reject(Service, x)
                    IN  /\ r.status = status'
                        /\ r.ongoing = ongoing'
                        /\ r.waiting = waiting']_vars

\* operator X rejected its call while another call waited: the rejected
\* call rings X again and the queue is as it was
C20_Witness ==
    /\ last.command = "reject" /\ Len(last.msg) = 2
    /\ last.msg[2] = Line("ringing", Call(last.msg[1].call), last.operator)
    /\ waiting # << >>
    /\ last.msg[1].call \notin WaitingIds

====
